---- MODULE Spec2Model ----
(***************************************************************************)
(* Model of blog-tweet's lambda.js: one invocation of exports.handler and  *)
(* the promise chain it builds (template scan, history scan, weighted      *)
(* selection, credential lookup, recent-tweet gate, tweet, history put,    *)
(* SNS notification), together with the collaborators' responses.          *)
(*                                                                         *)
(* One action is the arrival of one collaborator response together with    *)
(* the whole continuation that runs on it, up to and including the next    *)
(* request that continuation issues (promise continuations run to          *)
(* completion before any further response is delivered).                   *)
(*                                                                         *)
(* Template identifiers are array indices: getTemplates stores the items   *)
(* in a JavaScript array under item["template-id"], and randomTweet walks  *)
(* the array with map/reduce, which visit index properties only and skip   *)
(* holes.  An absent identifier is a hole of the array.                    *)
(***************************************************************************)
EXTENDS Integers, Sequences, FiniteSets, TLC

\* ------------------------------------------------------------------ bounds
NumIds == 2          \* template identifiers 0..NumIds-1 in the pipeline runs
MaxHistory == 3      \* records of blog-tweet-history at the start of a run
MaxPageLen == 2      \* records per page of a scan
MaxSelectIds == 3    \* template identifiers in the selector's populations
MaxTweeted == 2      \* small usage counts in the selector's populations
MaxTimeline == 2     \* tweets on the account before two runs start

\* --------------------------------------------------------- program constants
TimelineCount == 5   \* {count: 5} of statuses/user_timeline
PoolScale == 100     \* Math.floor(100 * tweet.weight)
StatusOK == 200      \* data.resp.statusCode !== 200

NoId == -1           \* null / undefined where a template identifier is expected

Ids == 0..(NumIds - 1)

SeqsUpTo(S, n) == UNION {[1..k -> S] : k \in 0..n}

RECURSIVE Flatten(_)
Flatten(pages) ==
    IF pages = <<>> THEN <<>> ELSE Head(pages) \o Flatten(Tail(pages))

Range(s) == {s[i] : i \in DOMAIN s}

\* ------------------------------------------------------------ store contents
TemplateItems == [templateId : Ids, enabled : BOOLEAN]

\* the records of blog-tweet-templates: template-id is the table's key
TemplateLists ==
    {s \in SeqsUpTo(TemplateItems, NumIds) :
        \A i, j \in DOMAIN s : i < j => s[i].templateId < s[j].templateId}

\* the records of blog-tweet-history, each reduced to the template-id it carries
HistoryLists == SeqsUpTo(Ids, MaxHistory)

\* the pages in which a scan delivers the records, limit records to a page; an
\* empty table is delivered as one empty page
RECURSIVE pagesOf(_, _)
pagesOf(records, limit) ==
    IF Len(records) <= limit THEN <<records>>
    ELSE <<SubSeq(records, 1, limit)>>
         \o pagesOf(SubSeq(records, limit + 1, Len(records)), limit)

\* docClient.scan: the page after ExclusiveStartKey, with LastEvaluatedKey set
\* (0 stands for undefined) while pages remain
scan(table, ExclusiveStartKey) ==
    LET p == ExclusiveStartKey + 1
    IN [Items |-> table[p],
        LastEvaluatedKey |-> IF p < Len(table) THEN p ELSE 0]

VARIABLES
    templateTable,   \* content of blog-tweet-templates
    historyTable,    \* content of blog-tweet-history at the start of the run
    pc,              \* the request of the main promise chain that is in flight
    startKey,        \* ExclusiveStartKey of the scan in flight (0: none)
    allItems,        \* soFar / allItems / enriched: id -> template + tweeted
    selection,       \* randomTweet's draw pool, as last built
    tweet,           \* template chosen by randomTweet (NoId: none)
    credentials,     \* data.credentials
    okayToPost,      \* data.okayToPost
    appended,        \* items put into blog-tweet-history by this run
    pending,         \* callback-style requests issued and not yet answered
    callbacks,       \* invocations of the completion callback, in order
    errLog,          \* console.error output, in order
    trace,           \* requests, responses and callback invocations, in order
    timeline,        \* sources of the account's tweets, oldest first
    runs             \* invocations sharing the account: run -> its position

vars == <<templateTable, historyTable, pc, startKey, allItems, selection, tweet,
          credentials, okayToPost, appended, pending, callbacks, errLog, trace,
          timeline, runs>>

Ev(ev, op, arg) == [ev |-> ev, op |-> op, arg |-> arg]

EmptyItems == [i \in {} |-> 0]

Put(f, k, v) == [x \in (DOMAIN f) \cup {k} |-> IF x = k THEN v ELSE f[x]]

\* ------------------------------------------------------------ getTemplates
\* data.Items.forEach: item.tweeted = 0; allItems[item["template-id"]] = item
RECURSIVE foldTemplates(_, _)
foldTemplates(soFar, Items) ==
    IF Items = <<>> THEN soFar
    ELSE foldTemplates(Put(soFar, Head(Items).templateId,
                           [templateId |-> Head(Items).templateId,
                            enabled |-> Head(Items).enabled,
                            tweeted |-> 0]),
                       Tail(Items))

\* -------------------------------------------------------------- getHistory
\* occurrences of template id among the records of a page
occurrences(Items, id) == Cardinality({i \in DOMAIN Items : Items[i] = id})

\* faulty variant: the loop over data.Items stops one record short
foldHistoryDropLast(enriched, Items) ==
    LET kept == SubSeq(Items, 1, Len(Items) - 1)
    IN [thrown |-> \E i \in DOMAIN kept : kept[i] \notin DOMAIN enriched,
        enriched |-> [x \in DOMAIN enriched |->
                        [enriched[x] EXCEPT !.tweeted = @ + occurrences(kept, x)]]]

\* faulty variant: a page assigns its own count instead of adding to tweeted
foldHistoryOverwrite(enriched, Items) ==
    [thrown |-> \E i \in DOMAIN Items : Items[i] \notin DOMAIN enriched,
     enriched |-> [x \in DOMAIN enriched |->
                     IF occurrences(Items, x) = 0 THEN enriched[x]
                     ELSE [enriched[x] EXCEPT !.tweeted = occurrences(Items, x)]]]

\* data.Items.forEach: enriched[item["template-id"]].tweeted += 1
\* Reading .tweeted of undefined throws a TypeError, which ends the forEach.
RECURSIVE foldHistory(_, _)
foldHistory(enriched, Items) ==
    IF Items = <<>> THEN [thrown |-> FALSE, enriched |-> enriched]
    ELSE IF Head(Items) \notin DOMAIN enriched
         THEN [thrown |-> TRUE, enriched |-> enriched]
         ELSE foldHistory([enriched EXCEPT ![Head(Items)].tweeted = @ + 1],
                          Tail(Items))

\* ---------------------------------------------------- the two aggregations
\* getTemplates over the pages of a whole scan, in the order delivered
RECURSIVE aggregateTemplates(_, _)
aggregateTemplates(soFar, pages) ==
    IF pages = <<>> THEN soFar
    ELSE aggregateTemplates(foldTemplates(soFar, Head(pages)), Tail(pages))

\* getHistory over the pages of a whole scan, in the order delivered; a
\* TypeError ends it
RECURSIVE aggregateHistory(_, _)
aggregateHistory(soFar, pages) ==
    IF pages = <<>> THEN [thrown |-> FALSE, enriched |-> soFar]
    ELSE LET folded == foldHistory(soFar, Head(pages))
         IN IF folded.thrown THEN folded
            ELSE aggregateHistory(folded.enriched, Tail(pages))

\* ------------------------------------------------------------- randomTweet
\* tweets.map(...).reduce(sum): the total of all the tweeted counts, over every
\* element of the array
RECURSIVE sumTweeted(_, _)
sumTweeted(tweets, S) ==
    IF S = {} THEN 0
    ELSE LET x == CHOOSE y \in S : TRUE
         IN tweets[x].tweeted + sumTweeted(tweets, S \ {x})

\* faulty variant: the total is taken over the enabled templates only
totalOfEnabled(tweets) ==
    LET total == sumTweeted(tweets, {x \in DOMAIN tweets : tweets[x].enabled})
    IN IF total = 0 THEN 1 ELSE total

\* var total, after the "total === 0" edge case
totalOf(tweets) ==
    LET total == sumTweeted(tweets, DOMAIN tweets)
    IN IF total = 0 THEN 1 ELSE total

\* Hundredths m for which the double product 100 * (m / 100) lies just below m
\* (0.29 * 100 = 28.999999999999996, 0.57 * 100 and 0.58 * 100 likewise); for
\* every other m of 0..100 the product is m exactly.
DoubleShort == {29, 57, 58}

\* faulty variant: the for loop runs once more (n <= instead of n <)
poolEntriesInclusive(total, tweeted) ==
    ((PoolScale * (total - tweeted)) \div total) + 1

\* faulty variant: the weight is the usage share itself, not its complement
poolEntriesProportional(total, tweeted) ==
    (PoolScale * tweeted) \div total

\* Math.floor(100 * tweet.weight), weight = (total - tweet.tweeted) / total in
\* double arithmetic.  When total does not divide 100 * (total - tweeted) the
\* exact value is at least 1/total away from an integer and the rounding error
\* of the two operations cannot move the floor; when it does, weight is the
\* double nearest to m / 100 and the product is short of m exactly for the
\* m of DoubleShort.
poolEntries(total, tweeted) ==
    LET num == PoolScale * (total - tweeted)
        m == num \div total
    IN IF num % total = 0 /\ m \in DoubleShort THEN m - 1 ELSE m

\* faulty variant: no "if (!tweet.enabled) return null"
RECURSIVE weightsFromAll(_, _)
weightsFromAll(tweets, S) ==
    IF S = {} THEN <<>>
    ELSE LET x == CHOOSE y \in S : \A z \in S : y <= z
         IN <<x>> \o weightsFromAll(tweets, S \ {x})

\* var weights: the enabled templates, in array (index) order
RECURSIVE weightsFrom(_, _)
weightsFrom(tweets, S) ==
    IF S = {} THEN <<>>
    ELSE LET x == CHOOSE y \in S : \A z \in S : y <= z
             rest == weightsFrom(tweets, S \ {x})
         IN IF tweets[x].enabled THEN <<x>> \o rest ELSE rest

weightsOf(tweets) == weightsFrom(tweets, DOMAIN tweets)

\* var selection: each template of weights pushed Math.floor(100 * weight) times
RECURSIVE buildSelection(_, _, _)
buildSelection(tweets, total, weights) ==
    IF weights = <<>> THEN <<>>
    ELSE LET t == Head(weights)
             n == poolEntries(total, tweets[t].tweeted)
         IN [i \in 1..n |-> t] \o buildSelection(tweets, total, Tail(weights))

selectionOf(tweets) ==
    IF Len(weightsOf(tweets)) = 1 THEN <<>>
    ELSE buildSelection(tweets, totalOf(tweets), weightsOf(tweets))

\* the values Math.floor(Math.random() * selection.length) can take
drawsOf(pool) == IF Len(pool) = 0 THEN {0} ELSE 0..(Len(pool) - 1)

\* faulty variant: no "selection.length === 0" edge case; tweets[undefined] is
\* undefined (-2), which is not null
randomTweetNoEmptyCheck(weights, pool, draw) ==
    IF Len(weights) = 1 THEN weights[1]
    ELSE IF Len(pool) = 0 THEN -2
    ELSE pool[draw + 1]

\* faulty variant: no "weights.length === 1" shortcut
randomTweetNoShortcut(weights, pool, draw) ==
    IF Len(pool) = 0 THEN NoId ELSE pool[draw + 1]

\* what randomTweet(tweets) returns, given its weights and selection arrays and
\* draw, the value of Math.floor(Math.random() * selection.length); NoId
\* stands for null
randomTweet(weights, pool, draw) ==
    IF Len(weights) = 1 THEN weights[1]
    ELSE IF Len(pool) = 0 THEN NoId
    ELSE pool[draw + 1]

\* ---------------------------------------------------------- collaborators
\* tweets.data[i].source of statuses/user_timeline
Sources == {"Twitter for iPhone", "Twitter Web App", "blog-tweet"}

\* x.includes("Twitter for iPhone")
includesIPhone(x) == x = "Twitter for iPhone"

\* data.resp.statusCode of statuses/update
StatusCodes == {StatusOK, 403}

\* data.Item of the credentials lookup
CredentialItems == {"undefined", "keys"}

\* requests of the main promise chain; pc names the one in flight
InFlight == {"scanTemplates", "scanHistory", "getCredentials", "userTimeline",
             "statusesUpdate", "putHistory", "publishTweeted", "publishSkipped"}

\* ------------------------------------------------------------------- Init
Init ==
    /\ \E limit \in 1..MaxPageLen :
         /\ templateTable \in {pagesOf(t, limit) : t \in TemplateLists}
         /\ historyTable \in {pagesOf(h, limit) : h \in HistoryLists}
    /\ pc = "start"
    /\ startKey = 0
    /\ allItems = EmptyItems
    /\ selection = <<>>
    /\ tweet = NoId
    /\ credentials = "undefined"
    /\ okayToPost = FALSE
    /\ appended = <<>>
    /\ pending = {}
    /\ callbacks = <<>>
    /\ errLog = <<>>
    /\ trace = <<>>
    /\ timeline = <<>>
    /\ runs = <<>>

\* what console.error prints for the two TypeErrors the chain can throw
HistoryTypeError == "TypeError: enriched[item.template-id] is undefined"
CredentialsTypeError == "TypeError: data.credentials is undefined"

\* the error callback(...) is given by errorHandler
ErrorCall == [err |-> "Error tweeting about blog", message |-> "undefined",
              slug |-> NoId]

\* errorHandler(err), reached through .catch: console.error(err);
\* callback("Error tweeting about blog").  tr is the trace up to the rejection.
errorHandler(err, tr) ==
    /\ errLog' = Append(errLog, err)
    /\ callbacks' = Append(callbacks, ErrorCall)
    /\ trace' = Append(tr, Ev("callback", "errorHandler", 0))
    /\ pc' = "done"

\* successMessage(data): callback(null, "Tweeted about blog: " + data.slug)
successMessage(data, tr) ==
    /\ callbacks' = Append(callbacks, [err |-> "null",
                                       message |-> "Tweeted about blog: ",
                                       slug |-> data.slug])
    /\ trace' = Append(tr, Ev("callback", "successMessage", data.slug))
    /\ pc' = "done"

\* faulty variant: the history scan is started alongside the template scan
handlerParallel ==
    /\ pc = "start"
    /\ pc' = "scanTemplates"
    /\ startKey' = 0
    /\ trace' = trace \o <<Ev("request", "scanTemplates", 0),
                           Ev("request", "scanHistory", 0)>>
    /\ UNCHANGED <<timeline, runs>>
    /\ UNCHANGED <<templateTable, historyTable, allItems, selection, tweet,
                   credentials, okayToPost, appended, pending, callbacks, errLog>>

\* exports.handler: getTemplates() with no soFar issues the first scan
handler ==
    /\ pc = "start"
    /\ pc' = "scanTemplates"
    /\ startKey' = 0
    /\ trace' = Append(trace, Ev("request", "scanTemplates", 0))
    /\ UNCHANGED <<timeline, runs>>
    /\ UNCHANGED <<templateTable, historyTable, allItems, selection, tweet,
                   credentials, okayToPost, appended, pending, callbacks, errLog>>

\* faulty variant: the recursive scan is not handed soFar, so every page
\* starts from an empty array
getTemplatesForgetful ==
    /\ pc = "scanTemplates"
    /\ LET data == scan(templateTable, startKey)
           tr == Append(trace, Ev("response", "scanTemplates", startKey))
       IN /\ allItems' = foldTemplates(EmptyItems, data.Items)
          /\ IF data.LastEvaluatedKey # 0
             THEN /\ startKey' = data.LastEvaluatedKey
                  /\ pc' = "scanTemplates"
                  /\ trace' = Append(tr, Ev("request", "scanTemplates",
                                            data.LastEvaluatedKey))
             ELSE /\ startKey' = 0
                  /\ pc' = "scanHistory"
                  /\ trace' = Append(tr, Ev("request", "scanHistory", 0))
    /\ UNCHANGED <<timeline, runs>>
    /\ UNCHANGED <<templateTable, historyTable, selection, tweet, credentials,
                   okayToPost, appended, pending, callbacks, errLog>>

\* getTemplates(soFar)(data): a page of blog-tweet-templates has arrived
getTemplates ==
    /\ pc = "scanTemplates"
    /\ LET data == scan(templateTable, startKey)
           tr == Append(trace, Ev("response", "scanTemplates", startKey))
       IN /\ allItems' = foldTemplates(allItems, data.Items)
          /\ IF data.LastEvaluatedKey # 0
             THEN /\ startKey' = data.LastEvaluatedKey
                  /\ pc' = "scanTemplates"
                  /\ trace' = Append(tr, Ev("request", "scanTemplates",
                                            data.LastEvaluatedKey))
             ELSE \* resolved; getHistory(null)(templates) issues the first scan
                  /\ startKey' = 0
                  /\ pc' = "scanHistory"
                  /\ trace' = Append(tr, Ev("request", "scanHistory", 0))
    /\ UNCHANGED <<timeline, runs>>
    /\ UNCHANGED <<templateTable, historyTable, selection, tweet, credentials,
                   okayToPost, appended, pending, callbacks, errLog>>

\* getHistory(soFar)(data): a page of blog-tweet-history has arrived; after the
\* last page randomTweet chooses and getTwitterCredentials issues the lookup
getHistory ==
    /\ pc = "scanHistory"
    /\ LET data == scan(historyTable, startKey)
           folded == foldHistory(allItems, data.Items)
           enriched == folded.enriched
           tr == Append(trace, Ev("response", "scanHistory", startKey))
       IN /\ allItems' = enriched
          /\ \/ /\ folded.thrown
                /\ errorHandler(HistoryTypeError, tr)
                /\ UNCHANGED <<startKey, selection, tweet>>
             \/ /\ ~folded.thrown
                /\ data.LastEvaluatedKey # 0
                /\ startKey' = data.LastEvaluatedKey
                /\ pc' = "scanHistory"
                /\ trace' = Append(tr, Ev("request", "scanHistory",
                                          data.LastEvaluatedKey))
                /\ UNCHANGED <<selection, tweet, callbacks, errLog>>
             \/ /\ ~folded.thrown
                /\ data.LastEvaluatedKey = 0
                /\ selection' = selectionOf(enriched)
                /\ \E draw \in drawsOf(selection') :
                     LET selectedTweet == randomTweet(weightsOf(enriched),
                                                      selection', draw)
                     IN /\ tweet' = selectedTweet
                        /\ IF selectedTweet # NoId
                           THEN /\ pc' = "getCredentials"
                                /\ trace' = Append(tr, Ev("request",
                                                          "getCredentials", 0))
                                /\ UNCHANGED <<callbacks, errLog>>
                           ELSE errorHandler(
                                  "Could not find an active tweet template", tr)
                /\ UNCHANGED startKey
    /\ UNCHANGED <<timeline, runs>>
    /\ UNCHANGED <<templateTable, historyTable, credentials, okayToPost,
                   appended, pending>>

\* processTwitterCredentials(tweet)(data), then checkRecentTweets(data): new
\* Twit reads data.credentials["consumer-key"], a TypeError when the lookup
\* found no item; otherwise the recent tweets are requested
processTwitterCredentials ==
    /\ pc = "getCredentials"
    /\ \E Item \in CredentialItems :
         LET tr == Append(trace, Ev("response", "getCredentials", 0))
         IN /\ credentials' = Item
            /\ IF Item = "undefined"
               THEN errorHandler(CredentialsTypeError, tr)
               ELSE /\ pc' = "userTimeline"
                    /\ trace' = Append(tr, Ev("request", "userTimeline",
                                              TimelineCount))
                    /\ UNCHANGED <<callbacks, errLog>>
    /\ UNCHANGED <<timeline, runs>>
    /\ UNCHANGED <<templateTable, historyTable, startKey, allItems, selection,
                   tweet, okayToPost, appended, pending>>

\* data.okayToPost as checkForNaturalTweets computes it from tweets.data
naturalOnly(tweetsData) ==
    LET naturalPosts == SelectSeq(tweetsData, includesIPhone)
    IN Len(tweetsData) = Len(naturalPosts)

\* faulty variant: the handler's continuation does not look at okayToPost
checkForNaturalTweetsUngated ==
    /\ pc = "userTimeline"
    /\ \E tweetsData \in SeqsUpTo(Sources, TimelineCount) :
         /\ okayToPost' = naturalOnly(tweetsData)
         /\ pc' = "statusesUpdate"
         /\ trace' = trace \o <<Ev("response", "userTimeline", 0),
                                Ev("request", "statusesUpdate", tweet)>>
    /\ UNCHANGED <<timeline, runs>>
    /\ UNCHANGED <<templateTable, historyTable, startKey, allItems, selection,
                   tweet, credentials, appended, pending, callbacks, errLog>>

\* checkForNaturalTweets(data)(tweets), then the handler's own continuation:
\* sendTweet when okayToPost, sendSkippedToSns otherwise
checkForNaturalTweets ==
    /\ pc = "userTimeline"
    /\ \E tweetsData \in SeqsUpTo(Sources, TimelineCount) :
         LET tr == Append(trace, Ev("response", "userTimeline", 0))
         IN /\ okayToPost' = naturalOnly(tweetsData)
            /\ IF naturalOnly(tweetsData)
               THEN /\ pc' = "statusesUpdate"
                    /\ trace' = Append(tr, Ev("request", "statusesUpdate", tweet))
               ELSE /\ pc' = "publishSkipped"
                    /\ trace' = Append(tr, Ev("request", "publishSkipped", 0))
    /\ UNCHANGED <<timeline, runs>>
    /\ UNCHANGED <<templateTable, historyTable, startKey, allItems, selection,
                   tweet, credentials, appended, pending, callbacks, errLog>>

\* faulty variant: only server errors count as a failed post
postFailedOnServerError(statusCode) == statusCode >= 500

\* "Check for failure": data.resp.statusCode !== 200
postFailed(statusCode) == statusCode # StatusOK

\* processSentTweet(template)(data): on a status other than 200, updateErrors
\* and errorToSns issue their callback-style requests and the chain rejects;
\* on 200 updateHistory issues the put
processSentTweet ==
    /\ pc = "statusesUpdate"
    /\ \E statusCode \in StatusCodes :
         LET tr == Append(trace, Ev("response", "statusesUpdate", statusCode))
         IN IF postFailed(statusCode)
            THEN /\ pending' = pending \cup {"putErrors", "publishError"}
                 /\ errorHandler("errorPayload",
                       tr \o <<Ev("request", "putErrors", tweet),
                               Ev("request", "publishError", tweet)>>)
            ELSE /\ pc' = "putHistory"
                 /\ trace' = Append(tr, Ev("request", "putHistory", tweet))
                 /\ UNCHANGED <<pending, callbacks, errLog>>
    /\ UNCHANGED <<timeline, runs>>
    /\ UNCHANGED <<templateTable, historyTable, startKey, allItems, selection,
                   tweet, credentials, okayToPost, appended>>

\* faulty variant: a failed error-record put is raised to errorHandler
updateErrorsReraised ==
    /\ "putErrors" \in pending
    /\ pending' = pending \ {"putErrors"}
    /\ \E err \in BOOLEAN :
         IF err
         THEN errorHandler("putErrors",
                           Append(trace, Ev("rejected", "putErrors", tweet)))
         ELSE /\ trace' = Append(trace, Ev("response", "putErrors", tweet))
              /\ UNCHANGED <<pc, callbacks, errLog>>
    /\ UNCHANGED <<timeline, runs>>
    /\ UNCHANGED <<templateTable, historyTable, startKey, allItems, selection,
                   tweet, credentials, okayToPost, appended>>

\* the callback updateErrors hands to docClient.put: console.error on failure
updateErrors ==
    /\ "putErrors" \in pending
    /\ pending' = pending \ {"putErrors"}
    /\ \E err \in BOOLEAN :
         /\ errLog' = IF err THEN Append(errLog, "putErrors") ELSE errLog
         /\ trace' = Append(trace, Ev(IF err THEN "rejected" ELSE "response",
                                      "putErrors", tweet))
    /\ UNCHANGED <<timeline, runs>>
    /\ UNCHANGED <<templateTable, historyTable, pc, startKey, allItems, selection,
                   tweet, credentials, okayToPost, appended, callbacks>>

\* the callback errorToSns hands to sns.publish: console.error on failure
errorToSns ==
    /\ "publishError" \in pending
    /\ pending' = pending \ {"publishError"}
    /\ \E err \in BOOLEAN :
         /\ errLog' = IF err THEN Append(errLog, "publishError") ELSE errLog
         /\ trace' = Append(trace, Ev(IF err THEN "rejected" ELSE "response",
                                      "publishError", tweet))
    /\ UNCHANGED <<timeline, runs>>
    /\ UNCHANGED <<templateTable, historyTable, pc, startKey, allItems, selection,
                   tweet, credentials, okayToPost, appended, callbacks>>

\* params.Item of updateHistory for the chosen template t (whose slug is
\* identified with its template-id)
historyItem(t) == [templateId |-> t, slug |-> t]

\* faulty variant: sendToSns's promise is not returned into the chain, so that
\* successMessage runs as soon as the put has succeeded
updateHistoryUnchained ==
    /\ pc = "putHistory"
    /\ appended' = Append(appended, historyItem(tweet))
    /\ successMessage(historyItem(tweet),
                      trace \o <<Ev("response", "putHistory", tweet),
                                 Ev("request", "publishTweeted", tweet)>>)
    /\ UNCHANGED <<timeline, runs>>
    /\ UNCHANGED <<templateTable, historyTable, startKey, allItems, selection,
                   tweet, credentials, okayToPost, pending, errLog>>

\* updateHistory's put has succeeded: params.Item is in the table and is passed
\* on to sendToSns, which publishes it
updateHistory ==
    /\ pc = "putHistory"
    /\ appended' = Append(appended, historyItem(tweet))
    /\ pc' = "publishTweeted"
    /\ trace' = trace \o <<Ev("response", "putHistory", tweet),
                           Ev("request", "publishTweeted", tweet)>>
    /\ UNCHANGED <<timeline, runs>>
    /\ UNCHANGED <<templateTable, historyTable, startKey, allItems, selection,
                   tweet, credentials, okayToPost, pending, callbacks, errLog>>

\* confirmSnsPublication(data) after sendToSns's publish, then successMessage
sendToSns ==
    /\ pc = "publishTweeted"
    /\ successMessage(historyItem(tweet),
                      Append(trace, Ev("response", "publishTweeted", tweet)))
    /\ UNCHANGED <<timeline, runs>>
    /\ UNCHANGED <<templateTable, historyTable, startKey, allItems, selection,
                   tweet, credentials, okayToPost, appended, pending, errLog>>

\* confirmSnsPublication(data) after sendSkippedToSns's publish: the chain
\* resolves with data and no continuation follows it
sendSkippedToSns ==
    /\ pc = "publishSkipped"
    /\ pc' = "done"
    /\ trace' = Append(trace, Ev("response", "publishSkipped", 0))
    /\ UNCHANGED <<timeline, runs>>
    /\ UNCHANGED <<templateTable, historyTable, startKey, allItems, selection,
                   tweet, credentials, okayToPost, appended, pending, callbacks,
                   errLog>>

\* faulty variant: every rejection also sends the failure notification
rejectedNotified ==
    /\ pc \in InFlight
    /\ pending' = pending \cup {"publishError"}
    /\ errorHandler(pc, trace \o <<Ev("rejected", pc, 0),
                                   Ev("request", "publishError", tweet)>>)
    /\ UNCHANGED <<timeline, runs>>
    /\ UNCHANGED <<templateTable, historyTable, startKey, allItems, selection,
                   tweet, credentials, okayToPost, appended>>

\* the request in flight is rejected by its collaborator: .catch(errorHandler)
rejected ==
    /\ pc \in InFlight
    /\ errorHandler(pc, Append(trace, Ev("rejected", pc, 0)))
    /\ UNCHANGED <<timeline, runs>>
    /\ UNCHANGED <<templateTable, historyTable, startKey, allItems, selection,
                   tweet, credentials, okayToPost, appended, pending>>

Next ==
    \/ handler
    \/ getTemplates
    \/ getHistory
    \/ processTwitterCredentials
    \/ checkForNaturalTweets
    \/ processSentTweet
    \/ updateErrors
    \/ errorToSns
    \/ updateHistory
    \/ sendToSns
    \/ sendSkippedToSns
    \/ rejected

Spec == Init /\ [][Next]_vars

\* ------------------------------------------- the two aggregations of a run
\* The run up to the end of its aggregations: getTemplates, then getHistory,
\* whose last page hands over to randomTweet and getTwitterCredentials.
\* a scan in flight is rejected
scanRejected ==
    /\ pc \in {"scanTemplates", "scanHistory"}
    /\ rejected

AggregationNext ==
    \/ handler
    \/ getTemplates
    \/ getHistory
    \/ scanRejected

\* every scan is answered or rejected and the continuation of a settled
\* promise is run
AggregationSpec ==
    Init /\ [][AggregationNext]_vars /\ WF_vars(AggregationNext)

\* ------------------------------------------------- the selector on its own
\* randomTweet applied to an enriched population drawn from a bounded set.
SelectIds == 0..(MaxSelectIds - 1)

\* usage counts 21 and 29 give total 50 and weight 0.58, where the double
\* product falls short of 58
RoundingUsages == {21, 29}

Usages == (0..MaxTweeted) \cup RoundingUsages

\* the arrays getHistory can hand to randomTweet: an element (or a hole) at
\* every index, each element carrying its own index as template-id
Populations ==
    UNION {{f \in [D -> [templateId : D, enabled : BOOLEAN, tweeted : Usages]] :
              \A x \in D : f[x].templateId = x} : D \in SUBSET SelectIds}

SelectInit ==
    /\ allItems \in Populations
    /\ pc = "select"
    /\ templateTable = <<<<>>>>
    /\ historyTable = <<<<>>>>
    /\ startKey = 0
    /\ selection = <<>>
    /\ tweet = NoId
    /\ credentials = "undefined"
    /\ okayToPost = FALSE
    /\ appended = <<>>
    /\ pending = {}
    /\ callbacks = <<>>
    /\ errLog = <<>>
    /\ trace = <<>>
    /\ timeline = <<>>
    /\ runs = <<>>

\* var selectedTweet = randomTweet(enriched)
select ==
    /\ pc = "select"
    /\ pc' = "selected"
    /\ selection' = selectionOf(allItems)
    /\ \E draw \in drawsOf(selection') :
         tweet' = randomTweet(weightsOf(allItems), selection', draw)
    /\ UNCHANGED <<timeline, runs>>
    /\ UNCHANGED <<templateTable, historyTable, startKey, allItems, credentials,
                   okayToPost, appended, pending, callbacks, errLog, trace>>

SelectNext == select

SelectSpec == SelectInit /\ [][SelectNext]_vars

\* ----------------------------------------------------- the gate on its own
\* checkRecentTweets applied to an account timeline drawn from a bounded set.
\* the source of a tweet sent by sendTweet with this application's credentials
OwnSource == "blog-tweet"

\* twitter.get("statuses/user_timeline", {count: 5}): the most recent tweets
recentTweets(tl) ==
    IF Len(tl) <= TimelineCount THEN tl
    ELSE SubSeq(tl, Len(tl) - TimelineCount + 1, Len(tl))

GateTimelines == SeqsUpTo(Sources, TimelineCount + 1)

GateInit ==
    /\ timeline \in GateTimelines
    /\ pc = "userTimeline"
    /\ templateTable = <<<<>>>>
    /\ historyTable = <<<<>>>>
    /\ startKey = 0
    /\ allItems = EmptyItems
    /\ selection = <<>>
    /\ tweet = NoId
    /\ credentials = "keys"
    /\ okayToPost = FALSE
    /\ appended = <<>>
    /\ pending = {}
    /\ callbacks = <<>>
    /\ errLog = <<>>
    /\ trace = <<>>
    /\ runs = <<>>

\* checkRecentTweets(data): the recent tweets arrive and
\* checkForNaturalTweets(data) sets data.okayToPost
checkRecentTweets ==
    /\ pc = "userTimeline"
    /\ okayToPost' = naturalOnly(recentTweets(timeline))
    /\ pc' = "gated"
    /\ UNCHANGED <<timeline, runs>>
    /\ UNCHANGED <<templateTable, historyTable, startKey, allItems, selection,
                   tweet, credentials, appended, pending, callbacks, errLog,
                   trace>>

GateNext == checkRecentTweets

GateSpec == GateInit /\ [][GateNext]_vars

\* ------------------------------------------- two runs on the same account
\* Two invocations of the handler that share the account's timeline and
\* blog-tweet-history, each from checkRecentTweets on, with its template
\* already chosen.
Runs == {"first", "second"}

Outcomes == {"none", "Posted", "Skipped", "Failed"}

\* params.Item of updateHistory with the tweet-id statuses/update returned
historyItemOf(t, id) == [templateId |-> t, slug |-> t, tweetId |-> id]

TwoRunInit ==
    /\ timeline \in SeqsUpTo(Sources, MaxTimeline)
    /\ runs \in [Runs -> {[pc |-> "userTimeline", tweet |-> t,
                           okayToPost |-> FALSE, recent |-> <<>>,
                           tweetId |-> 0, outcome |-> "none"] : t \in Ids}]
    /\ appended = <<>>
    /\ pc = "start"
    /\ templateTable = <<<<>>>>
    /\ historyTable = <<<<>>>>
    /\ startKey = 0
    /\ allItems = EmptyItems
    /\ selection = <<>>
    /\ tweet = NoId
    /\ credentials = "keys"
    /\ okayToPost = FALSE
    /\ pending = {}
    /\ callbacks = <<>>
    /\ errLog = <<>>
    /\ trace = <<>>

\* what a step of one of the two runs leaves alone
runLocalsUnchanged ==
    UNCHANGED <<templateTable, historyTable, pc, startKey, allItems, selection,
                tweet, credentials, okayToPost, pending, callbacks, errLog,
                trace>>

\* checkForNaturalTweets(data)(tweets) in run r, then its continuation
checkForNaturalTweetsOf(r) ==
    /\ runs[r].pc = "userTimeline"
    /\ LET recent == recentTweets(timeline)
       IN runs' = [runs EXCEPT ![r].recent = recent,
                               ![r].okayToPost = naturalOnly(recent),
                               ![r].pc = IF naturalOnly(recent)
                                         THEN "statusesUpdate"
                                         ELSE "publishSkipped"]
    /\ UNCHANGED <<timeline, appended>>
    /\ runLocalsUnchanged

\* processSentTweet(template)(data) in run r: on 200 the tweet is on the
\* account's timeline and updateHistory issues the put
processSentTweetOf(r) ==
    /\ runs[r].pc = "statusesUpdate"
    /\ \E statusCode \in StatusCodes :
         IF postFailed(statusCode)
         THEN /\ runs' = [runs EXCEPT ![r].pc = "done",
                                      ![r].outcome = "Failed"]
              /\ UNCHANGED timeline
         ELSE /\ timeline' = Append(timeline, OwnSource)
              /\ runs' = [runs EXCEPT ![r].pc = "putHistory",
                                      ![r].tweetId = Len(timeline) + 1]
    /\ UNCHANGED appended
    /\ runLocalsUnchanged

\* faulty variant: the put replaces the item already recorded for the template
updateHistoryOfKeyed(r) ==
    /\ runs[r].pc = "putHistory"
    /\ LET item == historyItemOf(runs[r].tweet, runs[r].tweetId)
           same == {i \in DOMAIN appended :
                      appended[i].templateId = item.templateId}
       IN appended' = IF same = {} THEN Append(appended, item)
                      ELSE [i \in DOMAIN appended |->
                              IF i \in same THEN item ELSE appended[i]]
    /\ runs' = [runs EXCEPT ![r].pc = "publishTweeted"]
    /\ UNCHANGED timeline
    /\ runLocalsUnchanged

\* updateHistory in run r: docClient.put(params) with no condition adds the
\* item, then sendToSns publishes it
updateHistoryOf(r) ==
    /\ runs[r].pc = "putHistory"
    /\ appended' = Append(appended,
                          historyItemOf(runs[r].tweet, runs[r].tweetId))
    /\ runs' = [runs EXCEPT ![r].pc = "publishTweeted"]
    /\ UNCHANGED timeline
    /\ runLocalsUnchanged

\* sendToSns's publish is confirmed in run r, then successMessage
sendToSnsOf(r) ==
    /\ runs[r].pc = "publishTweeted"
    /\ runs' = [runs EXCEPT ![r].pc = "done", ![r].outcome = "Posted"]
    /\ UNCHANGED <<timeline, appended>>
    /\ runLocalsUnchanged

\* sendSkippedToSns's publish is confirmed in run r
sendSkippedToSnsOf(r) ==
    /\ runs[r].pc = "publishSkipped"
    /\ runs' = [runs EXCEPT ![r].pc = "done", ![r].outcome = "Skipped"]
    /\ UNCHANGED <<timeline, appended>>
    /\ runLocalsUnchanged

\* the request run r has in flight is rejected: .catch(errorHandler)
rejectedOf(r) ==
    /\ runs[r].pc \in InFlight
    /\ runs' = [runs EXCEPT ![r].pc = "done", ![r].outcome = "Failed"]
    /\ UNCHANGED <<timeline, appended>>
    /\ runLocalsUnchanged

TwoRunNext ==
    \E r \in Runs :
        \/ checkForNaturalTweetsOf(r)
        \/ processSentTweetOf(r)
        \/ updateHistoryOf(r)
        \/ sendToSnsOf(r)
        \/ sendSkippedToSnsOf(r)
        \/ rejectedOf(r)

TwoRunSpec == TwoRunInit /\ [][TwoRunNext]_vars

\* ================================================================ properties
Has(ev, op) == \E i \in DOMAIN trace : trace[i].ev = ev /\ trace[i].op = op

Count(ev, op) ==
    Cardinality({i \in DOMAIN trace : trace[i].ev = ev /\ trace[i].op = op})

\* the promise chain has ended and no callback-style request is outstanding
terminated == pc = "done" /\ pending = {}

\* checkForNaturalTweets has run and set okayToPost to false
gateFalse == Has("response", "userTimeline") /\ ~okayToPost

\* the identifiers of the templates in blog-tweet-templates
templateIds == {Flatten(templateTable)[i].templateId :
                  i \in DOMAIN Flatten(templateTable)}

\* the number of history records that reference template id
historyCount(id) ==
    Cardinality({i \in DOMAIN Flatten(historyTable) :
                   Flatten(historyTable)[i] = id})

\* every page of blog-tweet-history has been delivered
historyDelivered == Count("response", "scanHistory") = Len(historyTable)

\* C1: every run that terminates has invoked the completion callback exactly
\* once, with an error string or with a success/skip message; this includes
\* the run whose gate returned false and whose skip notification was published.
C1_CallbackExactlyOnce ==
    terminated =>
        /\ Len(callbacks) = 1
        /\ \/ callbacks[1] = ErrorCall
           \/ callbacks[1].err = "null" /\ callbacks[1].message # "undefined"

\* C2: when the gate returns false (and the skip notification is accepted by
\* the publisher), exactly one "skipped" notification is published, no history
\* entry is appended, and the run ends Skipped, reported through the callback
\* as a success and not as an error.
C2_SkipReportedAsSuccess ==
    (terminated /\ gateFalse /\ ~Has("rejected", "publishSkipped")) =>
        /\ Count("request", "publishSkipped") = 1
        /\ Count("response", "publishSkipped") = 1
        /\ appended = <<>>
        /\ Count("request", "putHistory") = 0
        /\ Len(callbacks) = 1
        /\ callbacks[1].err = "null"

\* C3: a history entry whose template-id is absent from the template set is
\* ignored: the run does not fail because of it, and once the history has been
\* delivered every existing template's usage count is the number of entries
\* that reference it and selection has taken place.
C3_UnknownEntryIgnored ==
    (\E i \in DOMAIN Flatten(historyTable) :
        Flatten(historyTable)[i] \notin templateIds) =>
        /\ HistoryTypeError \notin Range(errLog)
        /\ (Has("response", "scanTemplates") /\ pc # "scanTemplates"
            /\ historyDelivered) =>
               /\ DOMAIN allItems = templateIds
               /\ \A id \in templateIds : allItems[id].tweeted = historyCount(id)

C5_SideEffectFailureSwallowed ==
    (Has("rejected", "putErrors") \/ Has("rejected", "publishError")) =>
        /\ pc = "done"
        /\ callbacks = <<ErrorCall>>
        /\ Count("callback", "errorHandler") = 1
        /\ errLog[1] = "errorPayload"
        /\ Has("rejected", "putErrors") <=> "putErrors" \in Range(errLog)
        /\ Has("rejected", "publishError") <=> "publishError" \in Range(errLog)

\* C5 witness: both side effects of a posting failure have failed
C5_Witness ==
    /\ Has("rejected", "putErrors")
    /\ Has("rejected", "publishError")
    /\ terminated

\* the steps of a successful post of template t, in order
successSteps(t) ==
    <<Ev("request", "statusesUpdate", t),
      Ev("response", "statusesUpdate", StatusOK),
      Ev("request", "putHistory", t),
      Ev("response", "putHistory", t),
      Ev("request", "publishTweeted", t),
      Ev("response", "publishTweeted", t),
      Ev("callback", "successMessage", t)>>

\* the trace from the post request on
postSteps ==
    LET k == CHOOSE i \in DOMAIN trace :
                 trace[i].ev = "request" /\ trace[i].op = "statusesUpdate"
    IN SubSeq(trace, k, Len(trace))

IsPrefix(s, t) == Len(s) <= Len(t) /\ s = SubSeq(t, 1, Len(s))

\* C6: on a successful post the steps are, each once and in this order: post,
\* put of one history entry referencing the chosen template, publish of the
\* success notification carrying that record, success callback; a step follows
\* only the success of the one before it, so that the success message is never
\* reported unless post, history put and notification all succeeded.
C6_SuccessPathOrder ==
    /\ Ev("response", "statusesUpdate", StatusOK) \in Range(trace) =>
          /\ \/ IsPrefix(postSteps, successSteps(tweet))
             \/ \E op \in {"putHistory", "publishTweeted"} :
                  \E n \in 1..Len(successSteps(tweet)) :
                    /\ successSteps(tweet)[n] = Ev("request", op, tweet)
                    /\ postSteps = SubSeq(successSteps(tweet), 1, n)
                                   \o <<Ev("rejected", op, 0),
                                        Ev("callback", "errorHandler", 0)>>
          /\ appended = IF Has("response", "putHistory")
                        THEN <<historyItem(tweet)>> ELSE <<>>
          /\ tweet \in templateIds
    /\ (\E i \in DOMAIN callbacks : callbacks[i].err = "null") =>
          /\ callbacks = <<[err |-> "null", message |-> "Tweeted about blog: ",
                            slug |-> tweet]>>
          /\ postSteps = successSteps(tweet)
          /\ appended = <<historyItem(tweet)>>

\* C6 witness: the success message has been reported
C6_Witness ==
    /\ pc = "done"
    /\ Len(callbacks) = 1
    /\ callbacks[1].err = "null"
    /\ Len(appended) = 1

FetchOps == {"scanTemplates", "scanHistory", "getCredentials"}

\* C7: once a template scan, a history scan or the credential lookup has
\* failed, nothing further is requested (no page, no recent tweets, no post, no
\* put), no notification of any kind is published, and the callback has been
\* given the generic failure message.
C7_FetchFailureAborts ==
    \A i \in DOMAIN trace :
        (trace[i].ev = "rejected" /\ trace[i].op \in FetchOps) =>
            /\ Len(trace) = i + 1
            /\ trace[i + 1] = Ev("callback", "errorHandler", 0)
            /\ \A j \in DOMAIN trace :
                 trace[j].ev = "request" => trace[j].op \in FetchOps
            /\ pending = {}
            /\ appended = <<>>
            /\ pc = "done"
            /\ callbacks = <<ErrorCall>>

\* C7 witness: a history scan failed after an earlier history page had arrived
C7_Witness ==
    /\ Has("rejected", "scanHistory")
    /\ Has("response", "scanHistory")
    /\ pc = "done"

\* randomTweet has been applied to the enriched population
selectionRan ==
    /\ Has("response", "scanHistory")
    /\ historyDelivered
    /\ HistoryTypeError \notin Range(errLog)

\* no record of blog-tweet-templates is enabled
noneEnabled ==
    \A i \in DOMAIN Flatten(templateTable) : ~Flatten(templateTable)[i].enabled

\* C8: with zero enabled templates (the empty population included) selection
\* fails with the "no active template" outcome and the run ends Failed without
\* fetching credentials, posting, writing history or publishing anything.
C8_NoEnabledTemplateFails ==
    (selectionRan /\ noneEnabled) =>
        /\ tweet = NoId
        /\ errLog = <<"Could not find an active tweet template">>
        /\ callbacks = <<ErrorCall>>
        /\ pc = "done"
        /\ \A j \in DOMAIN trace :
             trace[j].ev = "request" => trace[j].op \in {"scanTemplates", "scanHistory"}
        /\ appended = <<>>

\* C8 witness: selection ran on disabled templates that have been tweeted
C8_Witness ==
    /\ selectionRan
    /\ noneEnabled
    /\ templateIds # {}
    /\ Flatten(historyTable) # <<>>

\* ---- the selector's properties, stated on the population it was given
enabledIds == {x \in DOMAIN allItems : allItems[x].enabled}

RECURSIVE usageSum(_)
usageSum(S) ==
    IF S = {} THEN 0
    ELSE LET x == CHOOSE y \in S : TRUE
         IN allItems[x].tweeted + usageSum(S \ {x})

\* occurrences of template id in the draw pool
poolCount(id) == Cardinality({i \in DOMAIN selection : selection[i] = id})

\* floor(100 * (T - u) / T) as the code's double arithmetic evaluates it: the
\* exact floor, except one less for an exact quotient of 29, 57 or 58 hundredths
expectedEntries(T, u) ==
    LET m == (100 * (T - u)) \div T
    IN IF (100 * (T - u)) % T = 0 /\ m \in {29, 57, 58} THEN m - 1 ELSE m

orOne(n) == IF n = 0 THEN 1 ELSE n

C10_SoleEnabledSelected ==
    (pc = "selected" /\ Cardinality(enabledIds) = 1) => tweet \in enabledIds

\* C10 witness: the sole enabled template has been tweeted, and so has a
\* disabled one
C10_Witness ==
    /\ pc = "selected"
    /\ Cardinality(enabledIds) = 1
    /\ \E x \in enabledIds : allItems[x].tweeted > 0
    /\ \E x \in DOMAIN allItems : ~allItems[x].enabled /\ allItems[x].tweeted > 0

\* C11: selection never returns a disabled template: whatever the population
\* and the draw, the template returned (and every entry of the draw pool) has
\* its enabled flag set.
C11_NeverDisabled ==
    pc = "selected" =>
        /\ tweet # NoId => (tweet \in DOMAIN allItems /\ allItems[tweet].enabled)
        /\ \A i \in DOMAIN selection :
             selection[i] \in DOMAIN allItems /\ allItems[selection[i]].enabled

\* C11 witness: a template was drawn from a pool of two enabled templates
\* while a never-tweeted disabled template was present
C11_Witness ==
    /\ pc = "selected"
    /\ tweet # NoId
    /\ Cardinality(enabledIds) >= 2
    /\ \E x \in DOMAIN allItems : ~allItems[x].enabled /\ allItems[x].tweeted = 0
    /\ \E x \in enabledIds : allItems[x].tweeted > 0

\* C12: with two or more enabled templates, a template whose usage count
\* equals the total (weight 0.0) is never the one selected.
C12_ZeroWeightNeverSelected ==
    (pc = "selected" /\ Cardinality(enabledIds) >= 2 /\ tweet # NoId) =>
        /\ allItems[tweet].tweeted # orOne(usageSum(DOMAIN allItems))
        /\ \A id \in enabledIds :
             allItems[id].tweeted = orOne(usageSum(DOMAIN allItems))
                 => poolCount(id) = 0

\* C12 witness: of two enabled templates one carries the whole usage, and the
\* other one was selected
C12_Witness ==
    /\ pc = "selected"
    /\ Cardinality(enabledIds) = 2
    /\ \E id \in enabledIds :
         /\ allItems[id].tweeted > 0
         /\ allItems[id].tweeted = usageSum(DOMAIN allItems)
         /\ tweet \in enabledIds \ {id}
         /\ poolCount(tweet) = 100

\* C20: with two or more enabled templates the draw pool is never empty (some
\* enabled template has weight at least one half, hence at least 50 entries),
\* so that selection returns a template; selection returns null only when no
\* template is enabled.
C20_PoolNeverEmpty ==
    pc = "selected" =>
        /\ Cardinality(enabledIds) >= 2 =>
             /\ \E id \in enabledIds : poolCount(id) >= 50
             /\ Len(selection) >= 50
             /\ tweet # NoId
        /\ tweet = NoId => enabledIds = {}

\* C20 witness: two enabled templates share the whole usage equally, each with
\* weight one half
C20_Witness ==
    /\ pc = "selected"
    /\ Cardinality(enabledIds) = 2
    /\ \A id \in enabledIds :
         allItems[id].tweeted > 0
         /\ 2 * allItems[id].tweeted = usageSum(DOMAIN allItems)
    /\ Len(selection) = 100

\* C14: when selection runs, every template's usage count is the number of
\* history entries, over all pages, that reference it; the counts are 0 in the
\* freshly fetched templates and a template without entries keeps 0.
C14_UsageCountsMatchHistory ==
    /\ (Has("request", "scanHistory") /\ ~Has("response", "scanHistory")) =>
          /\ DOMAIN allItems = templateIds
          /\ \A id \in templateIds : allItems[id].tweeted = 0
    /\ selectionRan =>
          /\ DOMAIN allItems = templateIds
          /\ \A id \in templateIds : allItems[id].tweeted = historyCount(id)

\* C14 witness: selection ran after a history of more than one page, with a
\* template referenced from two pages and another never referenced
C14_Witness ==
    /\ selectionRan
    /\ Len(historyTable) >= 2
    /\ \E id \in templateIds :
         /\ allItems[id].tweeted >= 2
         /\ \A k \in DOMAIN historyTable : id \in Range(historyTable[k])
    /\ \E id \in templateIds : allItems[id].tweeted = 0

\* the permutations of 1..n
Perms(n) == {f \in [1..n -> 1..n] : \A i, j \in 1..n : f[i] = f[j] => i = j}

permuted(pages, f) == [i \in DOMAIN pages |-> pages[f[i]]]

\* the history aggregation has resolved and nothing has happened since
justAggregated ==
    /\ selectionRan
    /\ ~Has("response", "getCredentials")
    /\ ~Has("rejected", "getCredentials")

\* C16: aggregation is order-independent: the enriched population the run has
\* built when selection runs is the one the two aggregations build from the
\* same template pages and history pages delivered in any other page order.
C16_OrderIndependent ==
    justAggregated =>
        \A f \in Perms(Len(templateTable)), g \in Perms(Len(historyTable)) :
            LET other == aggregateHistory(
                             aggregateTemplates(EmptyItems,
                                                permuted(templateTable, f)),
                             permuted(historyTable, g))
            IN ~other.thrown /\ other.enriched = allItems

\* C16 witness: selection ran on templates and a history both delivered in
\* several pages that differ from one another
C16_Witness ==
    /\ justAggregated
    /\ Len(templateTable) >= 2
    /\ Len(historyTable) >= 2
    /\ historyTable[1] # historyTable[Len(historyTable)]
    /\ \E id \in templateIds : allItems[id].tweeted >= 2

\* the position of the first event ev of operation op in the trace, 0 if none
FirstAt(ev, op) ==
    IF Has(ev, op)
    THEN CHOOSE i \in DOMAIN trace :
           /\ trace[i].ev = ev /\ trace[i].op = op
           /\ \A j \in 1..(i - 1) : ~(trace[j].ev = ev /\ trace[j].op = op)
    ELSE 0

\* randomTweet found no enabled template
selectionFailed == "Could not find an active tweet template" \in Range(errLog)

\* a scan, the credential lookup or the recent-tweets request was rejected, or
\* the lookup found no credentials
fetchFailed ==
    \/ \E op \in FetchOps \cup {"userTimeline"} : Has("rejected", op)
    \/ CredentialsTypeError \in Range(errLog)

\* C19: a run issues at most one post request, and only after selection
\* returned a template, the credentials were fetched and the gate on the
\* fetched recent tweets returned true; a run where selection failed, a fetch
\* failed or the gate returned false issues no post request and no history put.
C19_PostOnlyAfterGate ==
    /\ Count("request", "statusesUpdate") <= 1
    /\ Has("request", "statusesUpdate") =>
          /\ selectionRan
          /\ tweet \in templateIds
          /\ allItems[tweet].enabled
          /\ credentials = "keys"
          /\ okayToPost
          /\ 0 < FirstAt("response", "getCredentials")
          /\ FirstAt("response", "getCredentials")
                < FirstAt("response", "userTimeline")
          /\ FirstAt("response", "userTimeline")
                < FirstAt("request", "statusesUpdate")
    /\ (selectionFailed \/ fetchFailed \/ gateFalse) =>
          /\ ~Has("request", "statusesUpdate")
          /\ ~Has("request", "putHistory")
          /\ appended = <<>>

\* C19 witness: a run that posted and recorded its post, having passed the gate
C19_Witness ==
    /\ Has("request", "statusesUpdate")
    /\ okayToPost
    /\ appended # <<>>
    /\ terminated

\* the requests issued among the first n events and not yet answered
outstanding(n) ==
    Cardinality({i \in 1..n : trace[i].ev = "request"})
      - Cardinality({i \in 1..n : trace[i].ev \in {"response", "rejected"}})

\* the post was answered with a failure status among the first n events
postFailedBy(n) ==
    \E i \in 1..n : /\ trace[i].ev = "response"
                    /\ trace[i].op = "statusesUpdate"
                    /\ postFailed(trace[i].arg)

scanEvents(op) ==
    LET isOp(e) == e.op = op
    IN SelectSeq(trace, isOp)

\* the pages of a table are requested one after another: request k carries the
\* key the page before it returned (none on the first), is answered before the
\* next is issued, and no page is requested twice or after the last one
sequentialScan(op, table) ==
    LET evs == scanEvents(op)
    IN /\ \A k \in DOMAIN evs :
            IF k % 2 = 1
            THEN evs[k] = Ev("request", op, (k - 1) \div 2)
            ELSE \/ evs[k] = Ev("response", op, (k - 2) \div 2)
                 \/ evs[k] = Ev("rejected", op, 0) /\ k = Len(evs)
       /\ Count("request", op) <= Len(table)
       /\ \A k \in 1..Count("response", op) :
            scan(table, k - 1).LastEvaluatedKey = 0 => 2 * k >= Len(evs)

\* the template aggregation has resolved
templatesOver == Has("request", "scanHistory")

\* the two aggregations ask for every page once, in sequence, and fold every
\* record
C15_Sequential ==
    /\ sequentialScan("scanTemplates", templateTable)
    /\ sequentialScan("scanHistory", historyTable)
    /\ templatesOver =>
          /\ Count("response", "scanTemplates") = Len(templateTable)
          /\ FirstAt("request", "scanHistory")
                = 2 * Len(templateTable) + 1
          /\ DOMAIN allItems = templateIds
          /\ \A i \in DOMAIN Flatten(templateTable) :
               LET item == Flatten(templateTable)[i]
               IN allItems[item.templateId].enabled = item.enabled
    /\ selectionRan =>
          /\ Count("response", "scanHistory") = Len(historyTable)
          /\ \A id \in templateIds : allItems[id].tweeted = historyCount(id)
          /\ usageSum(templateIds) = Len(Flatten(historyTable))

\* the run is past both aggregations
aggregationOver == pc \notin {"start", "scanTemplates", "scanHistory"}

\* C15: over tables of finitely many pages each aggregation (templates, then
\* history) terminates, having requested the pages one after another, each
\* request after the first with the key the previous page returned, every page
\* once, every record folded in, and nothing requested after the page without
\* a key.
C15_PaginationTerminates == []C15_Sequential /\ <>aggregationOver

\* C15 witness: both aggregations have resolved over tables of several pages
C15_Witness ==
    /\ pc = "getCredentials"
    /\ Count("request", "scanTemplates") = Len(templateTable)
    /\ Count("request", "scanHistory") = Len(historyTable)
    /\ Len(templateTable) >= 2
    /\ Len(historyTable) >= 2

\* a tweet that does not bear this application's own source
humanOriginated(x) == x # OwnSource

\* C13: the gate returns true exactly when every inspected recent tweet (the
\* up-to-5 most recent) is human-originated: false if any bears the
\* application's own source, true if all are human-originated, whether there
\* are 5 of them, fewer, or none.
C13_GateIffHumanOriginated ==
    pc = "gated" =>
        (okayToPost <=>
            \A i \in DOMAIN recentTweets(timeline) :
                humanOriginated(recentTweets(timeline)[i]))

\* run r has posted, recorded and announced its tweet
Posted(r) == runs[r].pc = "done" /\ runs[r].outcome = "Posted"

\* run r went on to sendTweet
passedGate(r) ==
    \/ runs[r].pc \in {"statusesUpdate", "putHistory", "publishTweeted"}
    \/ runs[r].tweetId # 0
    \/ Posted(r)

\* the put of run r has succeeded
recorded(r) == runs[r].pc = "publishTweeted" \/ Posted(r)

\* C18: nothing makes two runs in quick succession idempotent: a run passes the
\* gate on the recent tweets it fetched, whatever the other run has done since;
\* every run that reaches Posted has its own tweet on the timeline and its own
\* entry in the history, and no put is deduplicated, so that two runs that
\* both reach Posted leave two tweets and two history entries.
C18_RunsNotIdempotent ==
    /\ \A r \in Runs :
         /\ passedGate(r) => naturalOnly(runs[r].recent)
         /\ (runs[r].pc = "publishSkipped" \/ runs[r].outcome = "Skipped") =>
               ~naturalOnly(runs[r].recent)
    /\ \A r \in Runs :
         recorded(r) =>
            /\ runs[r].tweetId \in DOMAIN timeline
            /\ timeline[runs[r].tweetId] = OwnSource
            /\ historyItemOf(runs[r].tweet, runs[r].tweetId) \in Range(appended)
    /\ Len(appended) >= Cardinality({r \in Runs : recorded(r)})
    /\ (\A r \in Runs : Posted(r)) =>
          /\ Len(appended) = Cardinality(Runs)
          /\ Cardinality({i \in DOMAIN timeline : timeline[i] = OwnSource})
                >= Cardinality(Runs)
          /\ \A r, q \in Runs : r # q => runs[r].tweetId # runs[q].tweetId

\* C18 witness: both runs reached Posted with the same template, each having
\* fetched its recent tweets before the other had posted
C18_Witness ==
    /\ \A r \in Runs : Posted(r)
    /\ \A r, q \in Runs : runs[r].tweet = runs[q].tweet
    /\ \A r \in Runs : OwnSource \notin Range(runs[r].recent)
    /\ Len(appended) = 2
    /\ Cardinality({i \in DOMAIN timeline : timeline[i] = OwnSource}) = 2
====
